---- MODULE Spec2Model ----
(***************************************************************************)
(* Data-Generator: the App session (prompt form, streaming accumulator,    *)
(* error banner), the geminiService streaming client and the export        *)
(* helpers (download / clipboard), as a state machine.                     *)
(*                                                                         *)
(* Strings are TLA+ strings (sequences of characters); the string          *)
(* functions of the program (trim, toLowerCase, split, join, +) are        *)
(* computed character by character.                                        *)
(***************************************************************************)
EXTENDS Integers, Sequences, FiniteSets, TLC

(***************************************************************************)
(* Bounds of the exploration.                                              *)
(***************************************************************************)
MaxGens == 2        \* invocations of handleGenerate that reach the upstream API
MaxChunks == 2      \* stream elements one upstream stream delivers
MaxEdits == 2       \* edits of the form fields
MaxExports == 1     \* download / copy actions
MaxLines == 60      \* line breaks of a text handed to the display

(***************************************************************************)
(* String functions of the JavaScript runtime.                             *)
(***************************************************************************)
Char(s, i) == SubSeq(s, i, i)

WhiteSpace == {" ", "\n", "\t", "\r", "\f"}

RECURSIVE TrimStart(_)
TrimStart(s) ==
  IF Len(s) = 0 THEN s
  ELSE IF Char(s, 1) \in WhiteSpace THEN TrimStart(SubSeq(s, 2, Len(s)))
  ELSE s

RECURSIVE TrimEnd(_)
TrimEnd(s) ==
  IF Len(s) = 0 THEN s
  ELSE IF Char(s, Len(s)) \in WhiteSpace THEN TrimEnd(SubSeq(s, 1, Len(s) - 1))
  ELSE s

\* String.prototype.trim
Trim(s) == TrimEnd(TrimStart(s))

UpperCase == "ABCDEFGHIJKLMNOPQRSTUVWXYZ"
LowerCase == "abcdefghijklmnopqrstuvwxyz"

LowerChar(c) ==
  IF \E k \in 1..Len(UpperCase) : Char(UpperCase, k) = c
  THEN Char(LowerCase, CHOOSE k \in 1..Len(UpperCase) : Char(UpperCase, k) = c)
  ELSE c

\* String.prototype.toLowerCase
RECURSIVE ToLowerCase(_)
ToLowerCase(s) ==
  IF Len(s) = 0 THEN s
  ELSE LowerChar(Char(s, 1)) \o ToLowerCase(SubSeq(s, 2, Len(s)))

\* String.prototype.split('\n'): the sequence of lines (always at least one).
\* The lines of a string are those of its two halves, the last line of the
\* first half continued by the first line of the second half.
RECURSIVE Split(_)
Split(s) ==
  IF Len(s) = 0 THEN << "" >>
  ELSE IF Len(s) = 1 THEN (IF s = "\n" THEN << "", "" >> ELSE << s >>)
  ELSE LET m == Len(s) \div 2
           l == Split(SubSeq(s, 1, m))
           r == Split(SubSeq(s, m + 1, Len(s)))
       IN  SubSeq(l, 1, Len(l) - 1) \o << l[Len(l)] \o r[1] >> \o Tail(r)

\* Array.prototype.join('\n') of the elements from..to
RECURSIVE JoinRange(_, _, _)
JoinRange(ls, from, to) ==
  IF from > to THEN ""
  ELSE IF from = to THEN ls[from]
  ELSE LET m == (from + to) \div 2
       IN  JoinRange(ls, from, m) \o "\n" \o JoinRange(ls, m + 1, to)

Join(ls) == JoinRange(ls, 1, Len(ls))

\* Array.prototype.slice(0, n)
Slice(ls, n) == SubSeq(ls, 1, IF Len(ls) < n THEN Len(ls) ELSE n)

\* s repeated n times
RECURSIVE Repeat(_, _)
Repeat(s, n) ==
  IF n = 0 THEN ""
  ELSE IF n = 1 THEN s
  ELSE Repeat(s, n \div 2) \o Repeat(s, n - (n \div 2))

\* JavaScript truthiness of a string value: !s is true exactly for ""
Truthy(s) == s # ""

(***************************************************************************)
(* types.ts                                                                *)
(***************************************************************************)
DataFormat == {"JSON", "CSV", "XML", "TXT"}

\* a value the type system does not exclude at run time (a cast string)
OtherFormats == {"YAML"}

DateFormats == {"ISO 8601", "YYYY-MM-DD", "MM/DD/YYYY", "DD/MM/YYYY", "Unix Timestamp"}

DecimalPlacesValues == {"default", "0", "1", "2", "3", "4"}

(***************************************************************************)
(* utils/fileUtils.ts                                                      *)
(***************************************************************************)
getMimeType(fmt) ==
  CASE fmt = "JSON" -> "application/json"
    [] fmt = "CSV"  -> "text/csv"
    [] fmt = "XML"  -> "application/xml"
    [] fmt = "TXT"  -> "text/plain"
    [] OTHER        -> "text/plain"

\* variant: the format name is used as it is
getFileExtension_asIs(fmt) == fmt

getFileExtension(fmt) == ToLowerCase(fmt)

\* the file downloadData builds: Blob([content], {type}) saved as a.download
DownloadedFile(content, fmt) ==
  [name    |-> "dummy-data." \o getFileExtension(fmt),
   type    |-> getMimeType(fmt),
   content |-> content]

\* variant: no early return on empty content
downloadData_noGuard(saved, content, fmt) ==
  Append(saved, DownloadedFile(content, fmt))

\* downloadData(content, format): the files saved after the call
downloadData(saved, content, fmt) ==
  IF ~Truthy(content) THEN saved
  ELSE Append(saved, DownloadedFile(content, fmt))

(***************************************************************************)
(* components/DataDisplay.tsx: what is rendered                            *)
(***************************************************************************)
DisplayLimit == 50

\* variant: the spinner replaces the panel for the whole generation
ShowsSpinner_whileLoading(data, loading) == loading

ShowsSpinner(data, loading) == loading /\ ~Truthy(data)

ShowsPlaceholder(data, loading) == ~ShowsSpinner(data, loading) /\ ~Truthy(data)

\* the output panel with the copy and download buttons
ShowsOutput(data, loading) ==
  ~ShowsSpinner(data, loading) /\ ~ShowsPlaceholder(data, loading)

\* variant: a text of exactly DisplayLimit lines counts as truncated
isTruncated_atLimit(data) == Len(Split(data)) >= DisplayLimit

isTruncated(data) == Len(Split(data)) > DisplayLimit

displayData(data) ==
  IF isTruncated(data) THEN Join(Slice(Split(data), DisplayLimit)) ELSE data

remainingLines(data) == Len(Split(data)) - DisplayLimit


(***************************************************************************)
(* components/DataInputForm.tsx and App.tsx: constants                     *)
(***************************************************************************)
EXAMPLE_PROMPTS ==
  << "10 users with id, name, email, address (city, state), and role (Admin, User)",
     "5 products with name, price, category, stock count, and isAvailable boolean",
     "List of 5 financial transactions with id, amount, currency, status, and timestamp",
     "20 sensor readings with deviceId, temperature, humidity, and timestamp" >>

InitialPrompt == "10 users with a name, email, address, and a unique ID from 1 to 10"

ValidationMessage == "Please enter a description for the data you want to generate."

GenericMessage == "Failed to generate data. Please check your API key and try again."

\* string | null and similar optional values: <<>> is null, <<v>> is the value v
Null == << >>
Some(v) == << v >>

(***************************************************************************)
(* Inputs of the exploration: what the user types, what upstream streams.  *)
(***************************************************************************)
TypedPrompts == {"", " \n\t", "5 users"}

\* the options the user picks in a session, among those the selects offer
PickedDateFormats == {"ISO 8601", "Unix Timestamp"}
PickedDecimalPlaces == {"default", "2"}

\* one element of the response stream: chunk.text is a string or undefined
NoText == [hasText |-> FALSE, text |-> ""]
Text(t) == [hasText |-> TRUE, text |-> t]

ManyLines == Repeat("r\n", DisplayLimit)

StreamElements == {NoText, Text(""), Text("{\"a\":1}"), Text(ManyLines)}

\* the elements with a text to export
TextElements == {Text("{\"a\":1}"), Text(ManyLines)}

\* variant: the test is chunk.text !== undefined
HasTruthyText_defined(e) == e.hasText

\* JavaScript truthiness of chunk.text
HasTruthyText(e) == e.hasText /\ Truthy(e.text)

VARIABLES
  prompt,          \* App state: the description typed by the user
  format,          \* App state: the selected DataFormat
  dateFormat,      \* App state
  decimalPlaces,   \* App state
  generatedData,   \* App state: the accumulator
  isLoading,       \* App state
  error,           \* App state: Null or Some(message)
  isCopied,        \* DataDisplay state
  gens,            \* the generateDummyData calls still referenced, in call order
  requests,        \* calls of ai.models.generateContentStream so far
  pendingWrites,   \* navigator.clipboard.writeText promises not yet settled
  clipboard,       \* system clipboard: Null (untouched) or Some(text)
  timers,          \* pending setTimeout(.., 2000) callbacks
  files,           \* files saved through the anchor click, in order
  edits,           \* form edits so far
  exports,         \* effective copy / download actions so far
  last             \* the handler that ran last, with its arguments

vars == << prompt, format, dateFormat, decimalPlaces, generatedData, isLoading,
           error, isCopied, gens, requests, pendingWrites, clipboard, timers,
           files, edits, exports, last >>

formVars == << prompt, format, dateFormat, decimalPlaces >>
exportVars == << isCopied, pendingWrites, clipboard, timers, files, exports >>
sessionVars == << generatedData, isLoading, error, gens, requests >>

Op(name) == [op |-> name, content |-> "", format |-> ""]
OpWith(name, content, fmt) == [op |-> name, content |-> content, format |-> fmt]

Init ==
  /\ prompt = InitialPrompt
  /\ format = "JSON"
  /\ dateFormat = "ISO 8601"
  /\ decimalPlaces = "default"
  /\ generatedData = ""
  /\ isLoading = FALSE
  /\ error = Null
  /\ isCopied = FALSE
  /\ gens = << >>
  /\ requests = 0
  /\ pendingWrites = << >>
  /\ clipboard = Null
  /\ timers = 0
  /\ files = << >>
  /\ edits = 0
  /\ exports = 0
  /\ last = Op("init")

(***************************************************************************)
(* DataInputForm: every control is disabled while isLoading                *)
(***************************************************************************)
\* variant: the controls stay enabled during a generation
FormEnabled_always == TRUE

FormEnabled == ~isLoading

ChangePrompt(p) ==
  /\ FormEnabled
  /\ p # prompt
  /\ edits < MaxEdits
  /\ prompt' = p
  /\ edits' = edits + 1
  /\ last' = Op("setPrompt")
  /\ UNCHANGED << format, dateFormat, decimalPlaces, sessionVars, exportVars >>

\* variant: the example text is added to what the field holds
ClickExample_append(i) ==
  /\ FormEnabled
  /\ edits < MaxEdits
  /\ prompt' = prompt \o EXAMPLE_PROMPTS[i]
  /\ edits' = edits + 1
  /\ last' = OpWith("example", prompt, "")
  /\ UNCHANGED << format, dateFormat, decimalPlaces, sessionVars, exportVars >>

\* an example button; last keeps the prompt that is replaced
ClickExample(i) ==
  /\ FormEnabled
  /\ edits < MaxEdits
  /\ prompt' = EXAMPLE_PROMPTS[i]
  /\ edits' = edits + 1
  /\ last' = OpWith("example", prompt, "")
  /\ UNCHANGED << format, dateFormat, decimalPlaces, sessionVars, exportVars >>

ChangeFormat(f) ==
  /\ FormEnabled
  /\ f # format
  /\ edits < MaxEdits
  /\ format' = f
  /\ edits' = edits + 1
  /\ last' = Op("setFormat")
  /\ UNCHANGED << prompt, dateFormat, decimalPlaces, sessionVars, exportVars >>

ChangeDateFormat(d) ==
  /\ FormEnabled
  /\ d # dateFormat
  /\ edits < MaxEdits
  /\ dateFormat' = d
  /\ edits' = edits + 1
  /\ last' = Op("setDateFormat")
  /\ UNCHANGED << prompt, format, decimalPlaces, sessionVars, exportVars >>

ChangeDecimalPlaces(n) ==
  /\ FormEnabled
  /\ n # decimalPlaces
  /\ edits < MaxEdits
  /\ decimalPlaces' = n
  /\ edits' = edits + 1
  /\ last' = Op("setDecimalPlaces")
  /\ UNCHANGED << prompt, format, dateFormat, sessionVars, exportVars >>

(***************************************************************************)
(* services/geminiService.ts: generateDummyData                            *)
(***************************************************************************)
\* the format-specific guidance of the switch statement
JSONInstructions ==
  "\n"
  \o "      - Generate valid JSON syntax.\n"
  \o "      - Support nested objects and arrays deeply if requested.\n"
  \o "      - Use specific data types (boolean, numbers, null) correctly, do not wrap everything in strings unless necessary.\n"
  \o "      "

CSVInstructions ==
  "\n"
  \o "      - Generate valid CSV with a header row.\n"
  \o "      - If nested data is requested, flatten it using dot notation for headers (e.g., 'address.city') or understandable conventions.\n"
  \o "      - Enclose strings containing commas in quotes.\n"
  \o "      "

XMLInstructions ==
  "\n"
  \o "      - Generate valid XML with a single root element (e.g., <root> or <data> if not specified).\n"
  \o "      - Use semantic tags based on property names.\n"
  \o "      - Handle nested structures as nested elements.\n"
  \o "      "

TXTInstructions ==
  "\n"
  \o "      - Format as plain text or structured text as requested (e.g., lists, paragraphs).\n"
  \o "      "

\* variant: the JSON case has no break and falls through to the CSV case
specificInstructions_fallThrough(fmt) ==
  CASE fmt = "JSON" -> CSVInstructions
    [] fmt = "CSV"  -> CSVInstructions
    [] fmt = "XML"  -> XMLInstructions
    [] fmt = "TXT"  -> TXTInstructions
    [] OTHER        -> ""

\* the switch has no default case: the initial '' stays
specificInstructions(fmt) ==
  CASE fmt = "JSON" -> JSONInstructions
    [] fmt = "CSV"  -> CSVInstructions
    [] fmt = "XML"  -> XMLInstructions
    [] fmt = "TXT"  -> TXTInstructions
    [] OTHER        -> ""

\* variant: the rounding rule is emitted for every value
numberPrecision_always(dp) ==
  "Round all floating-point numbers to exactly " \o dp \o " decimal places."

\* the conditional expression of rule 2
numberPrecision(dp) ==
  IF dp # "default"
  THEN "Round all floating-point numbers to exactly " \o dp \o " decimal places."
  ELSE "Use standard precision for numbers."

formattingRules(df, dp) ==
  "\n"
  \o "  STRICT FORMATTING RULES:\n"
  \o "  1. **Date Format**: All date fields must strictly follow this format: \""
  \o df
  \o "\". \n"
  \o "     - If \"Unix Timestamp\" is requested, return an integer (milliseconds since epoch).\n"
  \o "     - If \"ISO 8601\" is requested, use YYYY-MM-DDTHH:mm:ss.sssZ.\n"
  \o "  2. **Number Precision**: "
  \o numberPrecision(dp)
  \o "\n"
  \o "  "

\* (the three grave accents of the markdown fence are written as apostrophes:
\* a TLA+ string cannot hold a grave accent)
systemInstruction(fmt, df, dp) ==
  "You are a sophisticated dummy data generator engine.\n"
  \o "  Your task is to generate realistic, diverse, and structurally correct data based on the user's description.\n"
  \o "  \n"
  \o "  CORE RULES:\n"
  \o "  1. Output ONLY the raw data. Do NOT include markdown code blocks (like '''json), explanatory text, or conversational filler.\n"
  \o "  2. **Complex Structures**: You are capable of generating deeply nested JSON, relational data, and complex object schemas.\n"
  \o "  3. **Data Types**: Respect requested types (Enums, Booleans, Floats, Dates). \n"
  \o "     - If a user asks for \"status (Active, Inactive)\", randomly assign these values.\n"
  \o "     - If a user asks for \"boolean\", output raw true/false.\n"
  \o "  4. **Quantity**: Adhere strictly to the requested number of items.\n"
  \o "  \n"
  \o "  "
  \o formattingRules(df, dp)
  \o "\n"
  \o "\n"
  \o "  FORMAT SPECIFIC INSTRUCTIONS:\n"
  \o "  "
  \o specificInstructions(fmt)
  \o "\n"
  \o "  "

fullPrompt(userPrompt, fmt) ==
  "Generate data in " \o fmt \o " format based on this request: \"" \o userPrompt \o "\""

ModelName == "gemini-3-flash-preview"

\* the argument of ai.models.generateContentStream
Request(userPrompt, fmt, df, dp) ==
  [model             |-> ModelName,
   contents          |-> fullPrompt(userPrompt, fmt),
   systemInstruction |-> systemInstruction(fmt, df, dp)]

\* the call as issued: arguments, the upstream stream and the returned promise
NewGeneration(p, f, df, dp) ==
  [prompt        |-> p,
   format        |-> f,
   dateFormat    |-> df,
   decimalPlaces |-> dp,
   phase         |-> "opening",    \* opening, streaming, ended, failed
   received      |-> << >>,        \* the stream elements received so far
   forwarded     |-> << >>,        \* the arguments of the onChunk calls so far
   logged        |-> FALSE,        \* console.error in the catch block ran
   promise       |-> "pending"]    \* pending, fulfilled, rejected

\* the promise of generateDummyData once the for-await loop has finished
PromiseAfterStreamEnd == "fulfilled"

\* the promise of generateDummyData once the try block has thrown: the catch
\* block logs the error and falls off the end of the async function
PromiseAfterFailure == "fulfilled"

\* variant: the chunk is put in front of the accumulated text
onChunk_prepend(prevData, chunk) == chunk \o prevData

\* the accumulator update of the onChunk callback handleGenerate passes
onChunk(prevData, chunk) == prevData \o chunk

(***************************************************************************)
(* App.tsx: handleGenerate                                                 *)
(***************************************************************************)
\* variant: the prompt is tested without trim()
isBlank_noTrim(p) == ~Truthy(p)

isBlank(p) == ~Truthy(Trim(p))

\* the calls whose promise is not settled: a settled promise is dropped once
\* the handleGenerate that awaited it has returned and a new call is made
IsPending(g) == g.promise = "pending"
Outstanding(gs) == SelectSeq(gs, IsPending)

\* the message of the error banner, '' when there is none
ShownError(e) == IF e = Null THEN "" ELSE e[1]

\* variant: the accumulator is reset before the prompt is validated
handleGenerate_resetFirst ==
  /\ last' = OpWith("handleGenerate", ShownError(error), "")
  /\ generatedData' = ""
  /\ IF isBlank(prompt)
     THEN /\ error' = Some(ValidationMessage)
          /\ UNCHANGED << isLoading, gens, requests >>
     ELSE /\ requests < MaxGens
          /\ isLoading' = TRUE
          /\ error' = Null
          /\ gens' = Append(Outstanding(gens),
                             NewGeneration(prompt, format, dateFormat, decimalPlaces))
          /\ requests' = requests + 1
  /\ UNCHANGED << formVars, exportVars, edits >>

\* variant: an accepted submission does not raise isLoading
handleGenerate_noLoading ==
  /\ last' = OpWith("handleGenerate", ShownError(error), "")
  /\ IF isBlank(prompt)
     THEN /\ error' = Some(ValidationMessage)
          /\ UNCHANGED << generatedData, isLoading, gens, requests >>
     ELSE /\ requests < MaxGens
          /\ isLoading' = isLoading
          /\ error' = Null
          /\ generatedData' = ""
          /\ gens' = Append(Outstanding(gens),
                             NewGeneration(prompt, format, dateFormat, decimalPlaces))
          /\ requests' = requests + 1
  /\ UNCHANGED << formVars, exportVars, edits >>

\* variant: an accepted submission empties the prompt field
handleGenerate_clearsPrompt ==
  /\ last' = OpWith("handleGenerate", ShownError(error), "")
  /\ IF isBlank(prompt)
     THEN /\ error' = Some(ValidationMessage)
          /\ UNCHANGED << prompt, generatedData, isLoading, gens, requests >>
     ELSE /\ requests < MaxGens
          /\ isLoading' = TRUE
          /\ error' = Null
          /\ generatedData' = ""
          /\ gens' = Append(Outstanding(gens),
                             NewGeneration(prompt, format, dateFormat, decimalPlaces))
          /\ requests' = requests + 1
          /\ prompt' = ""
  /\ UNCHANGED << format, dateFormat, decimalPlaces, exportVars, edits >>

\* variant: an accepted submission leaves the error banner as it is
handleGenerate_keepsError ==
  /\ last' = OpWith("handleGenerate", ShownError(error), "")
  /\ IF isBlank(prompt)
     THEN /\ error' = Some(ValidationMessage)
          /\ UNCHANGED << generatedData, isLoading, gens, requests >>
     ELSE /\ requests < MaxGens
          /\ isLoading' = TRUE
          /\ error' = error
          /\ generatedData' = ""
          /\ gens' = Append(Outstanding(gens),
                             NewGeneration(prompt, format, dateFormat, decimalPlaces))
          /\ requests' = requests + 1
  /\ UNCHANGED << formVars, exportVars, edits >>

\* variant: the accumulator is not reset when a generation starts
handleGenerate_noReset ==
  /\ last' = OpWith("handleGenerate", ShownError(error), "")
  /\ IF isBlank(prompt)
     THEN /\ error' = Some(ValidationMessage)
          /\ UNCHANGED << generatedData, isLoading, gens, requests >>
     ELSE /\ requests < MaxGens
          /\ isLoading' = TRUE
          /\ error' = Null
          /\ generatedData' = generatedData
          /\ gens' = Append(Outstanding(gens),
                             NewGeneration(prompt, format, dateFormat, decimalPlaces))
          /\ requests' = requests + 1
  /\ UNCHANGED << formVars, exportVars, edits >>

\* the part of handleGenerate up to the await, the synchronous part of
\* generateDummyData (up to its await of generateContentStream) included
\* (last keeps the message that was shown when the handler was entered)
handleGenerate ==
  /\ last' = OpWith("handleGenerate", ShownError(error), "")
  /\ IF isBlank(prompt)
     THEN /\ error' = Some(ValidationMessage)
          /\ UNCHANGED << generatedData, isLoading, gens, requests >>
     ELSE /\ requests < MaxGens
          /\ isLoading' = TRUE
          /\ error' = Null
          /\ generatedData' = ""
          /\ gens' = Append(Outstanding(gens),
                             NewGeneration(prompt, format, dateFormat, decimalPlaces))
          /\ requests' = requests + 1
  /\ UNCHANGED << formVars, exportVars, edits >>

\* variant: no finally block
ResumeHandleGenerate_noFinally(outcome) ==
  /\ error' = IF outcome = "rejected" THEN Some(GenericMessage) ELSE error
  /\ isLoading' = isLoading

\* the part of handleGenerate after the await: catch and finally
ResumeHandleGenerate(outcome) ==
  /\ error' = IF outcome = "rejected" THEN Some(GenericMessage) ELSE error
  /\ isLoading' = FALSE

\* variant: the Generate button is never disabled
ClickGenerate_alwaysEnabled == handleGenerate

\* the Generate button: disabled={isLoading}
ClickGenerate ==
  /\ ~isLoading
  /\ handleGenerate

(***************************************************************************)
(* The upstream stream of generation i                                     *)
(***************************************************************************)
StreamOpens(i) ==
  /\ gens[i].phase = "opening"
  /\ gens' = [gens EXCEPT ![i].phase = "streaming"]
  /\ last' = Op("streamOpens")
  /\ UNCHANGED << formVars, exportVars, edits, generatedData, isLoading, error, requests >>

\* variant: a rejected generateContentStream is called once more
StreamOpenFails_retry(i) ==
  /\ gens[i].phase = "opening"
  /\ requests < MaxGens
  /\ gens' = [gens EXCEPT ![i].logged = TRUE]
  /\ requests' = requests + 1
  /\ last' = Op("streamOpenFails")
  /\ UNCHANGED << formVars, exportVars, edits, generatedData, isLoading, error >>

\* await ai.models.generateContentStream(..) rejects
StreamOpenFails(i) ==
  /\ gens[i].phase = "opening"
  /\ gens' = [gens EXCEPT ![i].phase = "failed",
                          ![i].logged = TRUE,
                          ![i].promise = PromiseAfterFailure]
  /\ ResumeHandleGenerate(PromiseAfterFailure)
  /\ last' = Op("streamOpenFails")
  /\ UNCHANGED << formVars, exportVars, edits, generatedData, requests >>

\* variant: the chunks of a stream that is not the newest one are dropped
StreamDelivers_newestOnly(i, e) ==
  /\ gens[i].phase = "streaming"
  /\ Len(gens[i].received) < MaxChunks
  /\ IF HasTruthyText(e)
     THEN /\ generatedData' = IF i = Len(gens)
                              THEN onChunk(generatedData, e.text)
                              ELSE generatedData
          /\ gens' = [gens EXCEPT ![i].received = Append(@, e),
                                  ![i].forwarded = Append(@, e.text)]
     ELSE /\ generatedData' = generatedData
          /\ gens' = [gens EXCEPT ![i].received = Append(@, e)]
  /\ last' = Op("streamDelivers")
  /\ UNCHANGED << formVars, exportVars, edits, isLoading, error, requests >>

\* one iteration of the for-await loop
StreamDelivers(i, e) ==
  /\ gens[i].phase = "streaming"
  /\ Len(gens[i].received) < MaxChunks
  /\ IF HasTruthyText(e)
     THEN /\ generatedData' = onChunk(generatedData, e.text)
          /\ gens' = [gens EXCEPT ![i].received = Append(@, e),
                                  ![i].forwarded = Append(@, e.text)]
     ELSE /\ generatedData' = generatedData
          /\ gens' = [gens EXCEPT ![i].received = Append(@, e)]
  /\ last' = Op("streamDelivers")
  /\ UNCHANGED << formVars, exportVars, edits, isLoading, error, requests >>

\* variant: the loop ends but generateDummyData does not return
StreamEnds_neverReturns(i) ==
  /\ gens[i].phase = "streaming"
  /\ gens' = [gens EXCEPT ![i].phase = "ended"]
  /\ last' = Op("streamEnds")
  /\ UNCHANGED << formVars, exportVars, edits, generatedData, isLoading, error, requests >>

\* the stream is exhausted: the loop ends, generateDummyData returns
StreamEnds(i) ==
  /\ gens[i].phase = "streaming"
  /\ gens' = [gens EXCEPT ![i].phase = "ended",
                          ![i].promise = PromiseAfterStreamEnd]
  /\ ResumeHandleGenerate(PromiseAfterStreamEnd)
  /\ last' = Op("streamEnds")
  /\ UNCHANGED << formVars, exportVars, edits, generatedData, requests >>

\* variant: the failure handling rolls the partial output back
StreamFails_rollback(i) ==
  /\ gens[i].phase = "streaming"
  /\ gens' = [gens EXCEPT ![i].phase = "failed",
                          ![i].logged = TRUE,
                          ![i].promise = PromiseAfterFailure]
  /\ ResumeHandleGenerate(PromiseAfterFailure)
  /\ generatedData' = ""
  /\ last' = Op("streamFails")
  /\ UNCHANGED << formVars, exportVars, edits, requests >>

\* the iteration throws
StreamFails(i) ==
  /\ gens[i].phase = "streaming"
  /\ gens' = [gens EXCEPT ![i].phase = "failed",
                          ![i].logged = TRUE,
                          ![i].promise = PromiseAfterFailure]
  /\ ResumeHandleGenerate(PromiseAfterFailure)
  /\ last' = Op("streamFails")
  /\ UNCHANGED << formVars, exportVars, edits, generatedData, requests >>

(***************************************************************************)
(* components/DataDisplay.tsx: handlers                                    *)
(***************************************************************************)
\* variant: the text shown (truncated to the display limit) is exported
handleDownload_displayed ==
  /\ files' = downloadData(files, displayData(generatedData), format)
  /\ exports' = IF Truthy(generatedData) THEN exports + 1 ELSE exports
  /\ last' = OpWith("handleDownload", generatedData, format)
  /\ UNCHANGED << formVars, sessionVars, edits, isCopied, pendingWrites, clipboard, timers >>

handleDownload ==
  /\ files' = downloadData(files, generatedData, format)
  /\ exports' = IF Truthy(generatedData) THEN exports + 1 ELSE exports
  /\ last' = OpWith("handleDownload", generatedData, format)
  /\ UNCHANGED << formVars, sessionVars, edits, isCopied, pendingWrites, clipboard, timers >>

handleCopy ==
  /\ IF ~Truthy(generatedData)
     THEN UNCHANGED << pendingWrites, exports >>
     ELSE /\ pendingWrites' = Append(pendingWrites, generatedData)
          /\ exports' = exports + 1
  /\ last' = OpWith("handleCopy", generatedData, "")
  /\ UNCHANGED << formVars, sessionVars, edits, isCopied, clipboard, timers, files >>

\* the buttons exist only in the output panel; Copy is disabled={isCopied}
ClickDownload ==
  /\ ShowsOutput(generatedData, isLoading)
  /\ exports < MaxExports
  /\ handleDownload

ClickCopy ==
  /\ ShowsOutput(generatedData, isLoading)
  /\ ~isCopied
  /\ exports < MaxExports
  /\ handleCopy

\* writeText(data) resolves: the text is on the clipboard, .then runs
ClipboardWriteSucceeds ==
  /\ pendingWrites # << >>
  /\ clipboard' = Some(Head(pendingWrites))
  /\ pendingWrites' = Tail(pendingWrites)
  /\ isCopied' = TRUE
  /\ timers' = timers + 1
  /\ last' = Op("writeSucceeds")
  /\ UNCHANGED << formVars, sessionVars, edits, files, exports >>

\* variant: the feedback is given whether or not the write succeeded
ClipboardWriteFails_feedback ==
  /\ pendingWrites # << >>
  /\ pendingWrites' = Tail(pendingWrites)
  /\ isCopied' = TRUE
  /\ timers' = timers + 1
  /\ last' = Op("writeFails")
  /\ UNCHANGED << formVars, sessionVars, edits, files, exports, clipboard >>

\* writeText(data) rejects (permission denied): no handler is attached
ClipboardWriteFails ==
  /\ pendingWrites # << >>
  /\ pendingWrites' = Tail(pendingWrites)
  /\ last' = Op("writeFails")
  /\ UNCHANGED << formVars, sessionVars, edits, files, exports, clipboard, isCopied, timers >>

CopiedTimerFires ==
  /\ timers > 0
  /\ timers' = timers - 1
  /\ isCopied' = FALSE
  /\ last' = Op("timerFires")
  /\ UNCHANGED << formVars, sessionVars, edits, files, exports, clipboard, pendingWrites >>

(***************************************************************************)
(* Handlers and helpers called directly, without the rendering guards      *)
(***************************************************************************)
InvokeHandleGenerate == handleGenerate

InvokeHandleCopy ==
  /\ exports < MaxExports
  /\ handleCopy

InvokeHandleDownload ==
  /\ exports < MaxExports
  /\ handleDownload

CallDownloadData(content, fmt) ==
  /\ exports < MaxExports
  /\ files' = downloadData(files, content, fmt)
  /\ exports' = IF Truthy(content) THEN exports + 1 ELSE exports
  /\ last' = OpWith("downloadData", content, fmt)
  /\ UNCHANGED << formVars, sessionVars, edits, isCopied, pendingWrites, clipboard, timers >>

DirectContents == {"", "a,b\n1,2"}

\* generateDummyData called on its own, with the arguments held in the state;
\* the request it hands to generateContentStream is kept in last
CallGenerateDummyData ==
  /\ requests < MaxGens
  /\ gens' = Append(Outstanding(gens),
                    NewGeneration(prompt, format, dateFormat, decimalPlaces))
  /\ requests' = requests + 1
  /\ last' = [op      |-> "generateDummyData",
              content |-> "",
              format  |-> format,
              request |-> Request(prompt, format, dateFormat, decimalPlaces)]
  /\ UNCHANGED << formVars, generatedData, isLoading, error, exportVars, edits >>

(***************************************************************************)
(* Specifications                                                          *)
(***************************************************************************)
UserEdits ==
  \/ \E p \in TypedPrompts : ChangePrompt(p)
  \/ \E i \in 1..Len(EXAMPLE_PROMPTS) : ClickExample(i)
  \/ \E f \in DataFormat : ChangeFormat(f)
  \/ \E d \in PickedDateFormats : ChangeDateFormat(d)
  \/ \E n \in PickedDecimalPlaces : ChangeDecimalPlaces(n)

\* the events of the upstream streams, their elements drawn from elements
UpstreamOf(elements) ==
  \/ \E i \in 1..Len(gens) : StreamOpens(i)
  \/ \E i \in 1..Len(gens) : StreamOpenFails(i)
  \/ \E i \in 1..Len(gens), e \in elements : StreamDelivers(i, e)
  \/ \E i \in 1..Len(gens) : StreamEnds(i)
  \/ \E i \in 1..Len(gens) : StreamFails(i)

Upstream == UpstreamOf(StreamElements)

Exports ==
  \/ ClickDownload
  \/ ClickCopy
  \/ ClipboardWriteSucceeds
  \/ ClipboardWriteFails
  \/ CopiedTimerFires

\* the form and the generation, driven through the rendered controls
Next ==
  \/ UserEdits
  \/ ClickGenerate
  \/ Upstream

Spec == Init /\ [][Next]_vars

\* the formats the selector is moved between before an export
ExportedFormats == {"JSON", "CSV"}

\* the generation and the export of its output through the rendered buttons;
\* of the form only the format, which the export reads, is edited
NextExport ==
  \/ \E f \in ExportedFormats : ChangeFormat(f)
  \/ ClickGenerate
  \/ UpstreamOf(TextElements)
  \/ Exports

SpecExport == Init /\ [][NextExport]_vars

\* the same, with a timer that was set firing after its delay
SpecExportLive == Init /\ [][NextExport]_vars /\ WF_vars(CopiedTimerFires)

\* the generation and the exports when the export handlers and helpers are
\* also called directly, whatever is rendered
DirectCalls ==
  \/ InvokeHandleCopy
  \/ InvokeHandleDownload
  \/ \E c \in DirectContents, f \in DataFormat \cup OtherFormats : CallDownloadData(c, f)

NextDirect ==
  \/ ClickGenerate
  \/ UpstreamOf(TextElements)
  \/ Exports
  \/ DirectCalls

SpecDirect == Init /\ [][NextDirect]_vars

\* the session when every upstream request is answered and every stream that
\* was opened ends or throws: the transport's part, not the program's
StreamSettles ==
  \/ \E i \in 1..Len(gens) : StreamOpens(i)
  \/ \E i \in 1..Len(gens) : StreamOpenFails(i)
  \/ \E i \in 1..Len(gens) : StreamEnds(i)
  \/ \E i \in 1..Len(gens) : StreamFails(i)

SpecLive == Init /\ [][Next]_vars /\ WF_vars(StreamSettles)

\* DataDisplay on its own: rendered once with each of the texts below as data
DisplayedText(n, tail) == "first" \o Repeat("\nr", n) \o tail

DisplayedTexts == { DisplayedText(n, tail) : n \in 0..MaxLines, tail \in {"", "\n"} }

InitDisplay ==
  /\ prompt = InitialPrompt
  /\ format = "JSON"
  /\ dateFormat = "ISO 8601"
  /\ decimalPlaces = "default"
  /\ generatedData \in DisplayedTexts
  /\ isLoading \in BOOLEAN
  /\ error = Null
  /\ isCopied = FALSE
  /\ gens = << >>
  /\ requests = 0
  /\ pendingWrites = << >>
  /\ clipboard = Null
  /\ timers = 0
  /\ files = << >>
  /\ edits = 0
  /\ exports = 0
  /\ last = Op("init")

\* the output panel is rendered; last keeps what is put on screen
RenderDataDisplay ==
  /\ ShowsOutput(generatedData, isLoading)
  /\ last' = [op        |-> "render",
              content   |-> displayData(generatedData),
              format    |-> format,
              annotated |-> isTruncated(generatedData),
              remaining |-> remainingLines(generatedData)]
  /\ UNCHANGED << formVars, sessionVars, exportVars, edits >>

NextDisplay == RenderDataDisplay

SpecDisplay == InitDisplay /\ [][NextDisplay]_vars

\* the session from the loading of the geminiService module on, with the
\* API_KEY of the environment absent, empty or set; last keeps the key
ApiKeys == {Null, Some(""), Some("key")}

KeyTruthy(k) == k # Null /\ Truthy(k[1])

InitLoad ==
  /\ prompt = InitialPrompt
  /\ format = "JSON"
  /\ dateFormat = "ISO 8601"
  /\ decimalPlaces = "default"
  /\ generatedData = ""
  /\ isLoading = FALSE
  /\ error = Null
  /\ isCopied = FALSE
  /\ gens = << >>
  /\ requests = 0
  /\ pendingWrites = << >>
  /\ clipboard = Null
  /\ timers = 0
  /\ files = << >>
  /\ edits = 0
  /\ exports = 0
  /\ \E k \in ApiKeys :
        last = [op |-> "load", content |-> "", format |-> "", apiKey |-> k]

\* variant: the module does not look at the key
LoadGeminiService_noCheck ==
  /\ last.op = "load"
  /\ last' = [last EXCEPT !.op = "loaded"]
  /\ UNCHANGED << formVars, sessionVars, exportVars, edits >>

\* the top-level statements of the module: the throw, or the client
LoadGeminiService ==
  /\ last.op = "load"
  /\ last' = [last EXCEPT !.op = IF KeyTruthy(last.apiKey)
                                  THEN "loaded" ELSE "loadFailed"]
  /\ UNCHANGED << formVars, sessionVars, exportVars, edits >>

\* App imports the module: nothing is mounted before it has loaded, and
\* nothing at all when it threw
ModuleLoaded == last.op \notin {"load", "loadFailed"}

NextLoad ==
  \/ LoadGeminiService
  \/ ModuleLoaded /\ UserEdits
  \/ ModuleLoaded /\ ClickGenerate
  \/ ModuleLoaded /\ Upstream

SpecLoad == InitLoad /\ [][NextLoad]_vars

\* the prompt compiler on its own: every argument combination, then the call
CompiledPrompts == {InitialPrompt, "5 users"}

InitCompile ==
  /\ prompt \in CompiledPrompts
  /\ format \in DataFormat \cup OtherFormats
  /\ dateFormat \in DateFormats
  /\ decimalPlaces \in DecimalPlacesValues
  /\ generatedData = ""
  /\ isLoading = FALSE
  /\ error = Null
  /\ isCopied = FALSE
  /\ gens = << >>
  /\ requests = 0
  /\ pendingWrites = << >>
  /\ clipboard = Null
  /\ timers = 0
  /\ files = << >>
  /\ edits = 0
  /\ exports = 0
  /\ last = Op("init")

NextCompile == CallGenerateDummyData

SpecCompile == InitCompile /\ [][NextCompile]_vars

\* handleGenerate invoked whatever the button's state, also while a
\* generation is outstanding; the streams deliver and end, none fails
ReentrantElements == {Text("a"), Text("b")}

NextReentrant ==
  \/ InvokeHandleGenerate
  \/ \E i \in 1..Len(gens) : StreamOpens(i)
  \/ \E i \in 1..Len(gens), e \in ReentrantElements : StreamDelivers(i, e)
  \/ \E i \in 1..Len(gens) : StreamEnds(i)

SpecReentrant == Init /\ [][NextReentrant]_vars

TypeOK ==
  /\ isLoading \in BOOLEAN
  /\ isCopied \in BOOLEAN
  /\ format \in DataFormat
  /\ dateFormat \in DateFormats
  /\ decimalPlaces \in DecimalPlacesValues
  /\ error \in {Null, Some(ValidationMessage), Some(GenericMessage)}
  /\ requests \in 0..MaxGens
  /\ timers \in 0..MaxExports
  /\ Len(gens) <= MaxGens
  /\ Len(files) <= MaxExports


(***************************************************************************)
(* Properties                                                              *)
(***************************************************************************)
\* chunk.text read as a string: undefined contributes nothing
TextOf(e) == IF e.hasText THEN e.text ELSE ""

RECURSIVE ConcatTexts(_)
ConcatTexts(es) ==
  IF es = << >> THEN "" ELSE TextOf(Head(es)) \o ConcatTexts(Tail(es))

LastFile == files[Len(files)]

CopyAvailable == ShowsOutput(generatedData, isLoading) /\ ~isCopied
DownloadAvailable == ShowsOutput(generatedData, isLoading)

\* C1: a submission (handleGenerate) made while the prompt is empty or only
\* whitespace starts no upstream streaming call and sets the validation
\* error message, from every reachable session state.
C1_BlankSubmitNeverCalls ==
  [][(last'.op = "handleGenerate" /\ Trim(prompt) = "")
       => /\ requests' = requests
          /\ gens' = gens
          /\ error' = Some(ValidationMessage)]_vars

C1_Witness ==
  /\ last.op = "handleGenerate"
  /\ prompt = " \n\t"
  /\ requests = 1
  /\ error = Some(ValidationMessage)

\* C2: whenever the upstream streaming call of a generateDummyData call has
\* failed (while opening the stream or while iterating it), the promise
\* that call returned is rejected.
C2_FailureRejects ==
  \A i \in 1..Len(gens) : gens[i].phase = "failed" => gens[i].promise = "rejected"

\* C3: whenever the upstream generation has just failed during a submission,
\* the attempt ends with an error message set (the error banner is shown).
C3_FailureShowsError ==
  last.op \in {"streamOpenFails", "streamFails"} => error # Null

\* C4: during and after a single generation the accumulator generatedData is
\* the concatenation, in arrival order, of the texts of the stream elements
\* delivered so far: nothing is reordered, dropped or duplicated.
C4_AccumulatorIsConcatenation ==
  gens # << >> => generatedData = ConcatTexts(gens[Len(gens)].received)

C4_Witness ==
  /\ gens # << >>
  /\ gens[Len(gens)].phase = "ended"
  /\ gens[Len(gens)].received = << Text("{\"a\":1}"), Text(ManyLines) >>
  /\ generatedData = "{\"a\":1}" \o ManyLines

\* C5: every accepted submission (one that opens an upstream request) leaves
\* generatedData empty, whatever an earlier generation had accumulated.
C5_SubmissionResetsAccumulator ==
  [][requests' = requests + 1 => generatedData' = ""]_vars

\* the second generation has ended with its own chunk only, while a file
\* downloaded earlier still holds the output of the first generation
C5_Witness ==
  /\ requests = 2
  /\ gens[Len(gens)].phase = "ended"
  /\ generatedData = ManyLines
  /\ files # << >>
  /\ LastFile.content = "{\"a\":1}"

\* C6: the step in which a generation fails leaves generatedData as it was:
\* the chunks already appended are neither cleared nor shortened.
C6_FailureKeepsPartialOutput ==
  [][last'.op \in {"streamOpenFails", "streamFails"}
       => generatedData' = generatedData]_vars

C6_Witness ==
  /\ last.op = "streamFails"
  /\ gens[Len(gens)].phase = "failed"
  /\ generatedData = "{\"a\":1}"

\* C7: from the initial session, with prompt "5 users", format JSON, date
\* format "ISO 8601", decimal places "default" and an upstream that yields
\* the single chunk {"a":1} and ends, the state when the stream ends has
\* generatedData equal to that chunk, no error, isLoading false, and the copy
\* and download actions available.
C7_Scenario ==
  /\ requests = 1
  /\ exports = 0
  /\ last.op = "streamEnds"
  /\ gens[1].prompt = "5 users"
  /\ gens[1].format = "JSON"
  /\ gens[1].dateFormat = "ISO 8601"
  /\ gens[1].decimalPlaces = "default"
  /\ gens[1].received = << Text("{\"a\":1}") >>

C7_EndToEnd ==
  C7_Scenario
    => /\ generatedData = "{\"a\":1}"
       /\ error = Null
       /\ isLoading = FALSE
       /\ CopyAvailable
       /\ DownloadAvailable

C7_Witness == C7_Scenario /\ generatedData = "{\"a\":1}" /\ ~isLoading

\* C8: downloadData with empty content and the copy / download handlers with
\* empty data change nothing observable: no file, no anchor click, no
\* clipboard write (pending or done), no change of the copied flag or timer.
C8_EmptyExportIsNoOp ==
  [][(last'.op \in {"downloadData", "handleDownload", "handleCopy"} /\ last'.content = "")
       => UNCHANGED << files, clipboard, pendingWrites, isCopied, timers >>]_vars

C8_Witness ==
  /\ last.op = "handleCopy"
  /\ last.content = ""
  /\ generatedData = ""
  /\ pendingWrites = << >>
  /\ clipboard = Null

\* C9: downloadData with non-empty content saves exactly one more file; for
\* JSON, CSV, XML, TXT it is named dummy-data.json / .csv / .xml / .txt with
\* type application/json, text/csv, application/xml, text/plain; for any
\* other format value the type is text/plain.
C9_Name ==
  [JSON |-> "dummy-data.json", CSV |-> "dummy-data.csv",
   XML |-> "dummy-data.xml", TXT |-> "dummy-data.txt"]

C9_Mime ==
  [JSON |-> "application/json", CSV |-> "text/csv",
   XML |-> "application/xml", TXT |-> "text/plain"]

C9_DownloadNameAndType ==
  [][(last'.op \in {"downloadData", "handleDownload"} /\ last'.content # "")
       => /\ Len(files') = Len(files) + 1
          /\ SubSeq(files', 1, Len(files)) = files
          /\ LET f == files'[Len(files')]
                 fmt == last'.format
             IN  IF fmt \in DataFormat
                 THEN f.name = C9_Name[fmt] /\ f.type = C9_Mime[fmt]
                 ELSE f.type = "text/plain"]_vars

C9_Witness ==
  /\ last.op = "downloadData"
  /\ last.format = "CSV"
  /\ files # << >>
  /\ LastFile.name = "dummy-data.csv"
  /\ LastFile.type = "text/csv"

\* C10: a download saves, and a copy hands to the clipboard, exactly the
\* value generatedData has when the button is clicked, also while chunks
\* are still arriving and also when the display shows a truncated text.
C10_ExportIsAccumulator ==
  [][/\ last'.op = "handleDownload"
          => Len(files') = Len(files) + 1 /\ files'[Len(files')].content = generatedData
     /\ last'.op = "handleCopy"
          => pendingWrites' = Append(pendingWrites, generatedData)
     /\ last'.op = "writeSucceeds"
          => clipboard' = Some(Head(pendingWrites))]_vars

\* a download made while the stream is still open and the display truncated
C10_Witness ==
  /\ last.op = "handleDownload"
  /\ isLoading
  /\ isTruncated(generatedData)
  /\ displayData(generatedData) # generatedData
  /\ LastFile.content = generatedData

\* C11: the file a download saves is named and typed after the format that
\* was passed to the generation that produced the text, also when the
\* format selector was changed after that generation.
C11_ExportUsesGenerationFormat ==
  (last.op = "handleDownload" /\ files # << >> /\ gens # << >>)
    => /\ LastFile.name = "dummy-data." \o ToLowerCase(gens[Len(gens)].format)
       /\ LastFile.type = getMimeType(gens[Len(gens)].format)

\* s contains sub as a substring
Contains(s, sub) ==
  \E i \in 1..(Len(s) - Len(sub) + 1) :
     /\ Char(s, i) = Char(sub, 1)
     /\ SubSeq(s, i, i + Len(sub) - 1) = sub

C12_Guidance ==
  [JSON |-> JSONInstructions, CSV |-> CSVInstructions,
   XML  |-> XMLInstructions,  TXT |-> TXTInstructions]

\* C12: for each of the four formats JSON, CSV, XML and TXT the system
\* instruction generateDummyData compiles contains the guidance block of
\* that format and none of the guidance blocks of the three other formats.
C12_OwnGuidanceOnly ==
  (last.op = "generateDummyData" /\ format \in DataFormat)
    => \A f \in DataFormat :
          Contains(last.request.systemInstruction, C12_Guidance[f])
            <=> (f = format)

C12_Witness ==
  /\ last.op = "generateDummyData"
  /\ format = "XML"
  /\ gens[Len(gens)].format = "XML"
  /\ Contains(last.request.systemInstruction, XMLInstructions)
  /\ ~Contains(last.request.systemInstruction, TXTInstructions)

C13_RoundingLead == "Round all floating-point numbers"

C13_Rounding(n) ==
  "Round all floating-point numbers to exactly " \o n \o " decimal places."

\* C13: with decimalPlaces "default" the compiled instruction contains no
\* rounding instruction at all; with decimalPlaces N in "0".."4" it contains
\* the rounding instruction for exactly N decimal places and for no other
\* number of places.
C13_RoundingIffRequested ==
  last.op = "generateDummyData"
    => IF decimalPlaces = "default"
       THEN ~Contains(last.request.systemInstruction, C13_RoundingLead)
       ELSE \A n \in DecimalPlacesValues \ {"default"} :
               Contains(last.request.systemInstruction, C13_Rounding(n))
                 <=> (n = decimalPlaces)

C13_Witness ==
  /\ last.op = "generateDummyData"
  /\ decimalPlaces = "3"
  /\ gens[Len(gens)].decimalPlaces = "3"
  /\ Contains(last.request.systemInstruction,
              "  2. **Number Precision**: Round all floating-point numbers to exactly 3 decimal places.\n")

\* C14: for a format outside JSON, CSV, XML and TXT the compiled instruction
\* carries the plain-text guidance (the guidance of TXT), not an empty
\* format-specific section.
C14_UnknownFormatFallsBack ==
  (last.op = "generateDummyData" /\ format \notin DataFormat)
    => /\ Contains(last.request.systemInstruction, TXTInstructions)
       /\ last.request.systemInstruction
            = systemInstruction("TXT", dateFormat, decimalPlaces)

\* C15: a submission with a non-blank prompt opens exactly one upstream
\* streaming request, and no other step opens one: not the failure of the
\* stream, not its end, not a blank submission.  So the number of requests
\* is the number of accepted submissions.
C15_OneRequestPerSubmission ==
  [][IF last'.op = "handleGenerate" /\ Trim(prompt) # ""
     THEN /\ requests' = requests + 1
          /\ gens' = Append(Outstanding(gens), gens'[Len(gens')])
          /\ gens'[Len(gens')].phase = "opening"
     ELSE /\ requests' = requests
          /\ Len(gens') = Len(gens)
          /\ \A i \in 1..Len(gens) :
                gens[i].phase # "opening" => gens'[i].phase # "opening"]_vars

\* two accepted submissions, the second one failed: two requests in all
C15_Witness ==
  /\ last.op \in {"streamOpenFails", "streamFails"}
  /\ requests = 2
  /\ Len(gens) = 1
  /\ gens[1].phase = "failed"

\* C16: when submissions come only from the Generate button, at most one
\* generation is in flight in every reachable state, and no submission is
\* made while isLoading is true (the button is disabled then).
C16_OneInFlight ==
  [][/\ Len(Outstanding(gens')) <= 1
     /\ last'.op = "handleGenerate" => ~isLoading]_vars

\* the second generation is in flight, after the first one has finished
C16_Witness ==
  /\ isLoading
  /\ requests = 2
  /\ Len(Outstanding(gens)) = 1
  /\ gens[Len(gens)].phase = "streaming"

\* C17: handleGenerate invoked while a generation is outstanding starts a
\* second stream next to the first one and resets the accumulator; a chunk
\* that any stream, the first one included, delivers afterwards is appended
\* to the accumulator.  (The witness is a state holding chunks of both
\* streams in delivery order.)
C17_NoMutualExclusion ==
  [][/\ (last'.op = "handleGenerate" /\ Trim(prompt) # "")
          => /\ gens' = Append(Outstanding(gens), gens'[Len(gens')])
             /\ gens'[Len(gens')].phase = "opening"
             /\ generatedData' = ""
     /\ last'.op = "streamDelivers"
          => \A i \in 1..Len(gens) :
                Len(gens'[i].forwarded) > Len(gens[i].forwarded)
                  => generatedData' = generatedData
                        \o gens'[i].forwarded[Len(gens'[i].forwarded)]]_vars

\* both streams are open; after the second submission the first stream
\* delivered "a", the second "b", the first "a" again
C17_Witness ==
  /\ Len(gens) = 2
  /\ gens[1].phase = "streaming"
  /\ gens[2].phase = "streaming"
  /\ gens[1].forwarded = << "a", "a" >>
  /\ gens[2].forwarded = << "b" >>
  /\ generatedData = "aba"

C19_LoadingEndsWithStream ==
  /\ isLoading ~> ~isLoading
  /\ [][(isLoading /\ ~isLoading')
          => last'.op \in {"streamOpenFails", "streamEnds", "streamFails"}]_vars

\* the second submission's stream threw after a chunk and the session is
\* idle again
C19_Witness ==
  /\ last.op = "streamFails"
  /\ requests = 2
  /\ ~isLoading
  /\ Len(gens[Len(gens)].received) = 1

C20_LineBreaks(s, upTo) == Cardinality({ i \in 1..upTo : Char(s, i) = "\n" })

C20_Lines(s) == 1 + C20_LineBreaks(s, Len(s))

\* the text in front of the 50th line break
C20_First50(s) ==
  LET k == CHOOSE j \in 1..Len(s) : Char(s, j) = "\n" /\ C20_LineBreaks(s, j) = 50
  IN  SubSeq(s, 1, k - 1)

\* C20: of a text of more than 50 lines the display renders exactly the
\* first 50 lines and the annotation reports the number of lines minus 50,
\* which is at least 1; a text of 50 lines or fewer is rendered whole and
\* without annotation; rendering leaves the stored generatedData as it is.
C20_DisplayTruncation ==
  [][last'.op = "render"
       => /\ generatedData' = generatedData
          /\ IF C20_Lines(generatedData) > 50
             THEN /\ last'.content = C20_First50(generatedData)
                  /\ C20_Lines(last'.content) = 50
                  /\ last'.annotated
                  /\ last'.remaining = C20_Lines(generatedData) - 50
                  /\ last'.remaining >= 1
             ELSE /\ last'.content = generatedData
                  /\ ~last'.annotated]_vars

\* a text of 51 lines, the last one empty: 50 lines shown, 1 more announced
C20_Witness ==
  /\ last.op = "render"
  /\ generatedData = DisplayedText(49, "\n")
  /\ last.content = DisplayedText(49, "")
  /\ last.annotated
  /\ last.remaining = 1

\* C21: the prompt, format, date format and decimal places a generation was
\* called with are the values of the form when it was submitted, and while
\* the generation is in flight (isLoading) no step changes the form: in
\* every state the form still holds the arguments of the pending call.
C21_InputsFixedInFlight ==
  [][/\ isLoading => formVars' = formVars
     /\ \A i \in 1..Len(gens') :
           IsPending(gens'[i])
             => /\ gens'[i].prompt = prompt'
                /\ gens'[i].format = format'
                /\ gens'[i].dateFormat = dateFormat'
                /\ gens'[i].decimalPlaces = decimalPlaces']_vars

\* a generation submitted after two edits is streaming
C21_Witness ==
  /\ isLoading
  /\ edits = 2
  /\ prompt = "5 users"
  /\ format = "CSV"
  /\ Len(gens) = 1
  /\ gens[1].prompt = "5 users"
  /\ gens[1].format = "CSV"
  /\ gens[1].phase = "streaming"
  /\ Len(gens[1].received) = 1

C22_GenerationSteps ==
  {"handleGenerate", "streamOpens", "streamOpenFails", "streamDelivers",
   "streamEnds", "streamFails"}

\* C22: no step of a generation (the submission, accepted or rejected as
\* blank, the opening of the stream, a chunk, the end or the failure of the
\* stream) changes the prompt, the format, the date format or the decimal
\* places.
C22_GenerationKeepsForm ==
  [][last'.op \in C22_GenerationSteps => formVars' = formVars]_vars

\* two generations have run and the form holds what the user set before them
C22_Witness ==
  /\ last.op = "streamEnds"
  /\ requests = 2
  /\ edits = 2
  /\ prompt = "5 users"
  /\ decimalPlaces = "2"
  /\ ~isLoading

C23_ExampleTexts == { EXAMPLE_PROMPTS[i] : i \in 1..Len(EXAMPLE_PROMPTS) }

\* C23: a click on a quick-example button happens only while no generation
\* is in flight, makes the prompt exactly that example's text, which is not
\* empty, whatever the field held, and changes neither the format, the date
\* format, the decimal places, generatedData, the error nor isLoading.
C23_ExampleOverwritesPrompt ==
  [][last'.op = "example"
       => /\ ~isLoading
          /\ prompt' \in C23_ExampleTexts
          /\ prompt' # ""
          /\ UNCHANGED << format, dateFormat, decimalPlaces,
                          generatedData, error, isLoading >>]_vars

\* the first example was clicked, a generation ran, and a click on the
\* second example has just replaced the first one's text
C23_Witness ==
  /\ last.op = "example"
  /\ last.content = EXAMPLE_PROMPTS[1]
  /\ prompt = EXAMPLE_PROMPTS[2]
  /\ generatedData # ""
  /\ requests = 1
  /\ ~isLoading

\* C24: when API_KEY is absent (or empty) the loading of the service module
\* ends in its throw, and from then on nothing happens in the session: no
\* generation request is ever issued.
C24_NoKeyNoRequest ==
  [][/\ (last.op = "load" /\ ~KeyTruthy(last.apiKey)) => last'.op = "loadFailed"
     /\ last.op # "loadFailed"
     /\ last'.op = "loadFailed" => (requests' = 0 /\ gens' = << >>)]_vars

C24_Witness ==
  /\ last.op = "loadFailed"
  /\ last.apiKey = Null
  /\ requests = 0
  /\ gens = << >>

\* C25: with submissions made through the Generate button only, isLoading
\* is true exactly in the states in which a generateDummyData call has been
\* made and has not settled yet.
C25_LoadingIffOutstanding ==
  isLoading <=> (\E i \in 1..Len(gens) : gens[i].promise = "pending")

\* the request of the second generation is out, its stream not yet open
C25_Witness ==
  /\ isLoading
  /\ requests = 2
  /\ Len(gens) = 1
  /\ gens[1].phase = "opening"
  /\ gens[1].promise = "pending"

\* C26: while isLoading is true and generatedData is empty the spinner alone
\* is rendered and no copy or download can be made; once generatedData is
\* not empty the output panel with both controls is rendered, also while
\* isLoading is still true.
C26_PartialOutputShown ==
  [][/\ (isLoading' /\ generatedData' = "")
          => /\ ShowsSpinner(generatedData', isLoading')
             /\ ~ShowsOutput(generatedData', isLoading')
     /\ generatedData' # ""
          => /\ ShowsOutput(generatedData', isLoading')
             /\ ~ShowsSpinner(generatedData', isLoading')
     /\ last'.op \in {"handleCopy", "handleDownload"}
          => ShowsOutput(generatedData, isLoading) /\ generatedData # ""]_vars

\* the first chunk has arrived, the stream is still open, and the copy
\* button has been used
C26_Witness ==
  /\ last.op = "handleCopy"
  /\ isLoading
  /\ gens[Len(gens)].phase = "streaming"
  /\ generatedData = "{\"a\":1}"
  /\ pendingWrites = << "{\"a\":1}" >>

\* C27: a submission made with a blank prompt sets the validation message
\* and changes nothing else: generatedData, isLoading, the form and the
\* exports are as before, so the output of an earlier generation is still
\* rendered with its controls.
C27_BlankSubmitKeepsOutput ==
  [][(last'.op = "handleGenerate" /\ Trim(prompt) = "")
       => /\ error' = Some(ValidationMessage)
          /\ UNCHANGED << generatedData, isLoading, formVars, exportVars >>
          /\ ShowsOutput(generatedData, isLoading)
               => ShowsOutput(generatedData', isLoading')]_vars

\* a generation has ended, the prompt was blanked and submitted: its output
\* is on screen next to the validation message
C27_Witness ==
  /\ last.op = "handleGenerate"
  /\ Trim(prompt) = ""
  /\ error = Some(ValidationMessage)
  /\ requests = 1
  /\ gens[1].phase = "ended"
  /\ generatedData = "{\"a\":1}"
  /\ ShowsOutput(generatedData, isLoading)

\* C28: with submissions made through the Generate button only, no error
\* message is set in any state in which isLoading is true, and while
\* isLoading is true the error changes in no step other than one that ends
\* the loading.
C28_NoErrorWhileLoading ==
  [][/\ isLoading' => error' = Null
     /\ (isLoading /\ error' # error) => ~isLoading']_vars

\* after two edits of the form a generation is streaming: loading, no message
C28_Witness ==
  /\ isLoading
  /\ error = Null
  /\ last.op = "streamDelivers"
  /\ requests = 1
  /\ edits = 2
  /\ prompt = "5 users"
  /\ generatedData # ""

RECURSIVE C29_NonEmptyTexts(_)
C29_NonEmptyTexts(es) ==
  IF es = << >> THEN << >>
  ELSE IF Head(es).hasText /\ Head(es).text # ""
       THEN << Head(es).text >> \o C29_NonEmptyTexts(Tail(es))
       ELSE C29_NonEmptyTexts(Tail(es))

\* C29: the onChunk calls of a generation are, in order, the texts of the
\* stream elements received whose text is present and not empty; an element
\* with empty or missing text causes no onChunk call and leaves
\* generatedData unchanged.
C29_OnlyNonEmptyForwarded ==
  [][/\ \A i \in 1..Len(gens') :
           gens'[i].forwarded = C29_NonEmptyTexts(gens'[i].received)
     /\ last'.op = "streamDelivers"
          => \A i \in 1..Len(gens) :
                Len(gens'[i].received) > Len(gens[i].received)
                  => LET e == gens'[i].received[Len(gens'[i].received)]
                     IN  IF e.hasText /\ e.text # ""
                         THEN generatedData' = generatedData \o e.text
                         ELSE /\ generatedData' = generatedData
                              /\ gens'[i].forwarded = gens[i].forwarded]_vars

\* an element without text, then one with an empty text: nothing forwarded
C29_Witness ==
  /\ last.op = "streamDelivers"
  /\ Len(gens) = 1
  /\ gens[1].received = << NoText, Text("") >>
  /\ gens[1].forwarded = << >>
  /\ generatedData = ""
  /\ isLoading

====
